---- MODULE Spec2Model ----
(***************************************************************************)
(* Segmentation of the generated weekly program text into per-day entries, *)
(* as done by generate_program in web_api_server.py (lines 481-527), and   *)
(* the handler around it (lines 433-582): the checks before the model      *)
(* server is asked, its answer, and the saving of the program.             *)
(*                                                                         *)
(* A text is a sequence of one-character strings.  Offsets are 0-based as  *)
(* in Python: text[a:b] is Slice(text, a, b).                              *)
(***************************************************************************)
EXTENDS Integers, Sequences, FiniteSets, TLC

VARIABLES
    weekly_program_text,      \* result['weekly_program'], the text to segment
    training_days_per_week,   \* assessment_data['training_days_per_week']
    pc,                       \* position in the handler
    sep_idx,                  \* index (1-based) of the separator the for loop is at
    matches,                  \* the local list `matches` of line 497
    parsed,                   \* the local flag `parsed`
    weekly_program,           \* the dict, as a sequence of [day, content] in insertion order
    tried,                    \* history: separators evaluated by re.finditer, in order
    writers,                  \* history: who wrote entries (separator index, or 0 for the fallback)
    day_lines,                \* history: the local `day_lines` of each fallback iteration
    segments,                 \* history: the local `day_content` of each iteration of line 501
    steps,                    \* history: the number of steps the handler has taken
    error,                    \* exception raised inside the try block, "none" if none
    calls,                    \* concurrent requests: text, day count, position and result of each
    frames,                   \* concurrent requests: the local variables of each function frame
    logged_in,                \* 'user_id' in session, for the request being served
    response,                 \* the handler's answer: status code (0: none yet) and weekly_program
    model_status,             \* status code of the model server's answer to /generate (0: not asked)
    programs,                 \* the rows of the table programs, oldest first
    total_programs,           \* user_stats.total_programs of the user
    trace,                    \* history: what the handler has contacted or read, in order
    served                    \* the number of requests received so far

vars == << weekly_program_text, training_days_per_week, pc, sep_idx, matches, parsed,
           weekly_program, tried, writers, day_lines, segments, steps, error,
           calls, frames, logged_in, response, model_status, programs, total_programs,
           trace, served >>

\* the state of the handler outside the segmentation
handler == << logged_in, response, model_status, programs, total_programs, trace, served >>

----------------------------------------------------------------------------
(* Bounds of the model *)

MaxPieces == 4
MaxDays == 4
MaxRarePieces == 2
MaxConcPieces == 2
MaxConcDays == 2
MaxHandlerPieces == 2
MaxHandlerDays == 2

----------------------------------------------------------------------------
(* Characters *)

Min(a, b) == IF a < b THEN a ELSE b
Max(a, b) == IF a > b THEN a ELSE b

Digits == <<"0", "1", "2", "3", "4", "5", "6", "7", "8", "9">>

\* \d of the re module, on the characters of the model
IsDigit(c) == \E k \in 1..10 : Digits[k] = c

DigitVal(c) == (CHOOSE k \in 1..10 : Digits[k] = c) - 1

\* str.strip() with no argument strips whitespace
IsSpace(c) == c \in {" ", "\n", "\t", "\r"}

\* variant: the regular expressions compiled without re.IGNORECASE
LowerNone(c) == c

\* re.IGNORECASE compares characters up to case
Lower(c) ==
    CASE c = "D" -> "d"
      [] c = "A" -> "a"
      [] c = "Y" -> "y"
      [] OTHER -> c

----------------------------------------------------------------------------
(* Python string and list primitives *)

\* s[a:b] for 0 <= a, with Python's clamping of the bounds
Slice(s, a, b) ==
    LET lo == Min(Max(a, 0), Len(s))
        hi == Min(Max(b, 0), Len(s))
    IN  IF lo >= hi THEN << >> ELSE SubSeq(s, lo + 1, hi)

\* list[idx] raises IndexError when idx is out of range (idx >= 0 here)
IndexRaises(list, idx) == idx >= Len(list)

RECURSIVE LStrip(_)
LStrip(s) ==
    IF s = << >> THEN << >>
    ELSE IF IsSpace(Head(s)) THEN LStrip(Tail(s)) ELSE s

RECURSIVE RStrip(_)
RStrip(s) ==
    IF s = << >> THEN << >>
    ELSE IF IsSpace(s[Len(s)]) THEN RStrip(SubSeq(s, 1, Len(s) - 1)) ELSE s

\* str.strip()
Strip(s) == RStrip(LStrip(s))

\* str.split('\n'): always at least one element
RECURSIVE SplitFrom(_, _, _)
SplitFrom(s, p, cur) ==
    IF p > Len(s) THEN << cur >>
    ELSE IF s[p] = "\n" THEN << cur >> \o SplitFrom(s, p + 1, << >>)
    ELSE SplitFrom(s, p + 1, Append(cur, s[p]))

Split(s) == SplitFrom(s, 1, << >>)

\* '\n'.join(lines)
RECURSIVE Join(_)
Join(lines) ==
    IF lines = << >> THEN << >>
    ELSE IF Len(lines) = 1 THEN lines[1]
    ELSE lines[1] \o << "\n" >> \o Join(Tail(lines))

\* int(s) for a string of decimal digits; raises ValueError otherwise
IntRaises(s) == s = << >> \/ \E k \in 1..Len(s) : ~IsDigit(s[k])

RECURSIVE int(_)
int(s) ==
    IF s = << >> THEN 0
    ELSE 10 * int(SubSeq(s, 1, Len(s) - 1)) + DigitVal(s[Len(s)])

\* str(n) for n >= 0, as used by the f-string
RECURSIVE str(_)
str(n) ==
    IF n < 10 THEN << Digits[n + 1] >>
    ELSE str(n \div 10) \o << Digits[(n % 10) + 1] >>

----------------------------------------------------------------------------
(* The separators and re.finditer *)

\* variant: the bare separator declared first
possible_separatorsBareFirst ==
    << [lit |-> <<"D", "a", "y", " ">>, suffix |-> << >>],
       [lit |-> <<"D", "a", "y", " ">>, suffix |-> <<":">>],
       [lit |-> <<"D", "a", "y", " ">>, suffix |-> <<"\n">>],
       [lit |-> <<"D", "A", "Y", " ">>, suffix |-> <<":">>],
       [lit |-> <<"D", "A", "Y", " ">>, suffix |-> << >>] >>

\* variant: the list without the bare "Day (\d+)", its third place taken by
\* a second copy of the newline-suffixed separator
possible_separatorsNoBare ==
    << [lit |-> <<"D", "a", "y", " ">>, suffix |-> <<":">>],
       [lit |-> <<"D", "a", "y", " ">>, suffix |-> <<"\n">>],
       [lit |-> <<"D", "a", "y", " ">>, suffix |-> <<"\n">>],
       [lit |-> <<"D", "A", "Y", " ">>, suffix |-> <<":">>],
       [lit |-> <<"D", "A", "Y", " ">>, suffix |-> << >>] >>

\* Every separator is <literal> (\d+) <literal>
possible_separators ==
    << [lit |-> <<"D", "a", "y", " ">>, suffix |-> <<":">>],
       [lit |-> <<"D", "a", "y", " ">>, suffix |-> <<"\n">>],
       [lit |-> <<"D", "a", "y", " ">>, suffix |-> << >>],
       [lit |-> <<"D", "A", "Y", " ">>, suffix |-> <<":">>],
       [lit |-> <<"D", "A", "Y", " ">>, suffix |-> << >>] >>

NumSeparators == Len(possible_separators)

\* the literal `lit` occurs in `text` at offset p, compared with re.IGNORECASE
LitAt(lit, text, p) ==
    /\ p + Len(lit) <= Len(text)
    /\ \A k \in 1..Len(lit) : Lower(text[p + k]) = Lower(lit[k])

\* length of the run of digits of `text` starting at offset p
RECURSIVE DigitRun(_, _)
DigitRun(text, p) ==
    IF p < Len(text) /\ IsDigit(text[p + 1]) THEN 1 + DigitRun(text, p + 1) ELSE 0

\* the lengths the greedy group (\d+) can take at offset p so that the rest
\* of the separator matches; the regex engine takes the longest
GroupLens(sep, text, p) ==
    { r \in 1..DigitRun(text, p + Len(sep.lit)) :
        LitAt(sep.suffix, text, p + Len(sep.lit) + r) }

MatchesAt(sep, text, p) ==
    /\ LitAt(sep.lit, text, p)
    /\ GroupLens(sep, text, p) # {}

\* the match object at offset p: start(), end() and group(1)
MatchAt(sep, text, p) ==
    LET r == CHOOSE r \in GroupLens(sep, text, p) :
                 \A q \in GroupLens(sep, text, p) : q <= r
        g == p + Len(sep.lit)
    IN  [start |-> p,
         end   |-> g + r + Len(sep.suffix),
         group |-> Slice(text, g, g + r)]

\* list(re.finditer(separator, text, re.IGNORECASE)): leftmost matches,
\* the scan resuming at the end of each match
RECURSIVE ScanFrom(_, _, _)
ScanFrom(sep, text, p) ==
    IF p >= Len(text) THEN << >>
    ELSE IF MatchesAt(sep, text, p)
         THEN << MatchAt(sep, text, p) >> \o ScanFrom(sep, text, MatchAt(sep, text, p).end)
         ELSE ScanFrom(sep, text, p + 1)

finditer(sep, text) == ScanFrom(sep, text, 0)

----------------------------------------------------------------------------
(* The dict weekly_program: insertion-ordered, assignment overwrites in place *)

Keys(d) == { d[k].day : k \in 1..Len(d) }

HasKey(d, day) == day \in Keys(d)

Get(d, day) == d[CHOOSE k \in 1..Len(d) : d[k].day = day].content

\* variant: an assignment to a key that is present is dropped
DictSetKeepFirst(d, day, content) ==
    IF HasKey(d, day) THEN d ELSE Append(d, [day |-> day, content |-> content])

\* d[day] = content
DictSet(d, day, content) ==
    IF HasKey(d, day)
    THEN [k \in 1..Len(d) |->
             IF d[k].day = day THEN [day |-> day, content |-> content] ELSE d[k]]
    ELSE Append(d, [day |-> day, content |-> content])

----------------------------------------------------------------------------
(* The heading-pattern path, lines 498-515 *)

\* variant: line 498 with a strict comparison
QualifiesStrict(ms, n) == Len(ms) > n

\* variant: line 498 asking for exactly n matches
QualifiesExact(ms, n) == Len(ms) = n

\* variant: line 498 asking for at least one match
QualifiesPositive(ms, n) == n > 0 /\ Len(ms) >= n

\* line 498: the separator has enough matches
Qualifies(ms, n) == Len(ms) >= n

\* variant: the guard of line 506 off by one
HasNextMatchOffByOne(ms, i) == i + 1 <= Len(ms)

\* line 506: there is a next match (i is the 0-based enumerate index)
HasNextMatch(ms, i) == i + 1 < Len(ms)

\* variant: every segment runs to the end of the text
EndPosAlwaysEnd(ms, i, text) == Len(text)

\* variant: the segment runs to the end of the next heading
EndPosAtNextEnd(ms, i, text) ==
    IF HasNextMatch(ms, i) THEN ms[i + 2].end ELSE Len(text)

\* variant: the segment runs to the match after the next one
EndPosSkipNext(ms, i, text) ==
    IF i + 2 < Len(ms) THEN ms[i + 3].start ELSE Len(text)

\* lines 506-509
EndPos(ms, i, text) ==
    IF HasNextMatch(ms, i) THEN ms[i + 2].start ELSE Len(text)

\* variant: the key is the position of the match in the list
DayNumByPosition(ms, i) == i + 1

\* line 502: the key is the number written in the heading
DayNum(ms, i) == int(ms[i + 1].group)

\* variant: the slice of line 511 starting after the heading
DayContentAfterHeading(ms, i, text) ==
    Strip(Slice(text, ms[i + 1].end, EndPos(ms, i, text)))

\* variant: the first slice of line 511 starting at the beginning of the text
DayContentWithPreamble(ms, i, text) ==
    Strip(Slice(text, IF i = 0 THEN 0 ELSE ms[i + 1].start, EndPos(ms, i, text)))

\* line 511
DayContent(ms, i, text) ==
    Strip(Slice(text, ms[i + 1].start, EndPos(ms, i, text)))

\* an iteration of the loop of line 501 raises
IterationRaises(ms, i) ==
    \/ IntRaises(ms[i + 1].group)
    \/ (HasNextMatch(ms, i) /\ IndexRaises(ms, i + 1))

\* lines 501-512: the loop over matches[:n], iterations i..
RECURSIVE WriteSegments(_, _, _, _, _)
WriteSegments(d, ms, i, n, text) ==
    IF i >= Min(n, Len(ms)) THEN d
    ELSE WriteSegments(DictSet(d, DayNum(ms, i), DayContent(ms, i, text)),
                       ms, i + 1, n, text)

SegmentsRaise(ms, n) ==
    \E i \in 0..(Min(n, Len(ms)) - 1) : IterationRaises(ms, i)

----------------------------------------------------------------------------
(* The fallback path, lines 518-527 *)

\* variant: line 520 splitting the text as it is
FallbackLinesNoStrip(text) == Split(text)

\* line 520
FallbackLines(text) == Split(Strip(text))

\* variant: line 521 without the floor of one line per day
LinesPerDayNoFloor(lines, n) == Len(lines) \div n

\* variant: line 521 with a floor of two lines per day
LinesPerDayFloorTwo(lines, n) == Max(2, Len(lines) \div n)

\* line 521 (n # 0)
LinesPerDay(lines, n) == Max(1, Len(lines) \div n)

\* variant: the last day takes lines_per_day lines like the others
DayLinesNoRemainder(lines, day, n) ==
    Slice(lines, (day - 1) * LinesPerDay(lines, n), day * LinesPerDay(lines, n))

\* lines 524-526
DayLines(lines, day, n) ==
    LET start_line == (day - 1) * LinesPerDay(lines, n)
        end_line == IF day < n THEN day * LinesPerDay(lines, n) ELSE Len(lines)
    IN  Slice(lines, start_line, end_line)

\* f"Day {day}:\n"
Heading(day) == <<"D", "a", "y", " ">> \o str(day) \o <<":", "\n">>

\* line 527
FallbackContent(lines, day, n) == Heading(day) \o Join(DayLines(lines, day, n))

\* variant: range(1, n)
FallbackDaysShort(n) == 1..(n - 1)

\* line 523: range(1, n + 1)
FallbackDays(n) == 1..n

RECURSIVE WriteFallback(_, _, _, _)
WriteFallback(d, lines, day, n) ==
    IF day \notin FallbackDays(n) THEN d
    ELSE WriteFallback(DictSet(d, day, FallbackContent(lines, day, n)), lines, day + 1, n)

----------------------------------------------------------------------------
(* Lines 482-527 as a function of the text and the day count *)

\* the for loop of line 496 from separator k on, then the fallback
RECURSIVE LoopFrom(_, _, _)
LoopFrom(k, text, n) ==
    IF k > NumSeparators
    THEN WriteFallback(<< >>, FallbackLines(text), 1, n)
    ELSE LET ms == finditer(possible_separators[k], text)
         IN  IF Qualifies(ms, n)
             THEN WriteSegments(<< >>, ms, 0, n, text)
             ELSE LoopFrom(k + 1, text, n)

\* the dict weekly_program at line 527, for n >= 1
Segmented(text, n) == LoopFrom(1, text, n)

----------------------------------------------------------------------------
(* Inputs *)

\* The texts are built from day headings, the colon and the newline that
\* the separators look for, and a line of content whose digit also continues
\* the number of a heading it follows.
Pieces ==
    { <<"D", "a", "y", " ", "1">>,
      <<"D", "a", "y", " ", "2">>,
      <<"D", "a", "y", " ", "3">>,
      <<":">>, <<"\n">>, <<"1", "\n">> }

RECURSIVE Flatten(_)
Flatten(ps) == IF ps = << >> THEN << >> ELSE Head(ps) \o Flatten(Tail(ps))

\* Headings that are rarer in a generated text: written in upper or in
\* lower case, and numbered 0.
RarePieces ==
    { <<"D", "A", "Y", " ", "1", ":">>,
      <<"d", "a", "y", " ", "2", ":">>,
      <<"D", "a", "y", " ", "0">> }

\* the texts made of at most `max` pieces of the set `pieces`
TextsOf(pieces, max) ==
    { Flatten(ps) : ps \in UNION { [1..k -> pieces] : k \in 0..max } }

Texts == TextsOf(Pieces, MaxPieces) \cup TextsOf(Pieces \cup RarePieces, MaxRarePieces)

\* The texts of concurrent requests
ConcPieces ==
    { <<"D", "a", "y", " ", "1", ":">>,
      <<"D", "a", "y", " ", "2", ":">> }

ConcTexts == TextsOf(ConcPieces, MaxConcPieces)

----------------------------------------------------------------------------
(* Concurrent requests: Flask serves each request by its own call of       *)
(* generate_program                                                        *)

Callers == {1, 2}

\* variant: the variables of lines 482-497 kept at module level, one copy
\* for all calls
FrameShared(c) == 1

\* the frame that holds the local variables of call c: every call has its own
Frame(c) == c

\* lines 482, 494: the locals at the start of the segmentation
NewFrame == [sep_idx |-> 1, matches |-> << >>, parsed |-> FALSE, weekly_program |-> << >>]

\* no answer has been returned yet
NoResponse == [status |-> 0, weekly_program |-> << >>]

----------------------------------------------------------------------------
(* The state machine *)

Init ==
    /\ weekly_program_text = << >>
    /\ training_days_per_week = 1
    /\ pc = "generate"
    /\ sep_idx = 1
    /\ matches = << >>
    /\ parsed = FALSE
    /\ weekly_program = << >>
    /\ tried = << >>
    /\ writers = {}
    /\ day_lines = << >>
    /\ segments = << >>
    /\ steps = 0
    /\ error = "none"
    /\ calls = [c \in Callers |-> [text |-> << >>, n |-> 1, pc |-> "idle", result |-> << >>]]
    /\ frames = [f \in Callers |-> NewFrame]
    /\ logged_in = TRUE
    /\ response = NoResponse
    /\ model_status = 200
    /\ programs = << >>
    /\ total_programs = 0
    /\ trace = << >>
    /\ served = 0

\* lines 464 and 477-479: the day count of the request and the text of the
\* model server's answer
ReceiveProgramText ==
    /\ pc = "generate"
    /\ steps' = steps + 1
    /\ UNCHANGED << calls, frames, handler >>
    /\ weekly_program_text' \in Texts
    /\ training_days_per_week' \in 1..MaxDays
    /\ pc' = "parse"
    /\ UNCHANGED << sep_idx, matches, parsed, weekly_program, tried, writers,
                    day_lines, segments, error >>

\* lines 496-497: the loop takes the next separator and collects its matches
FindMatches ==
    /\ pc = "parse"
    /\ steps' = steps + 1
    /\ UNCHANGED << calls, frames, handler >>
    /\ sep_idx <= NumSeparators
    /\ matches' = finditer(possible_separators[sep_idx], weekly_program_text)
    /\ tried' = Append(tried, sep_idx)
    /\ pc' = "count"
    /\ UNCHANGED << weekly_program_text, training_days_per_week, sep_idx, parsed,
                    weekly_program, writers, day_lines, segments, error >>

\* lines 498-515: the separator has enough matches
SelectSeparator ==
    /\ pc = "count"
    /\ steps' = steps + 1
    /\ UNCHANGED << calls, frames, handler >>
    /\ Qualifies(matches, training_days_per_week)
    /\ LET n == training_days_per_week
       IN  IF SegmentsRaise(matches, n)
           THEN /\ error' = "exception"
                /\ pc' = "failed"
                /\ UNCHANGED << weekly_program, writers, parsed, segments >>
           ELSE /\ weekly_program' = WriteSegments(weekly_program, matches, 0, n, weekly_program_text)
                /\ segments' = [i \in 1..Min(n, Len(matches)) |->
                                   DayContent(matches, i - 1, weekly_program_text)]
                /\ writers' = IF n > 0 THEN writers \cup {sep_idx} ELSE writers
                /\ parsed' = TRUE
                /\ pc' = "after_loop"
                /\ UNCHANGED error
    /\ UNCHANGED << weekly_program_text, training_days_per_week, sep_idx, matches,
                    tried, day_lines >>

\* line 498: the separator has too few matches, the loop goes on
SkipSeparator ==
    /\ pc = "count"
    /\ steps' = steps + 1
    /\ UNCHANGED << calls, frames, handler >>
    /\ ~Qualifies(matches, training_days_per_week)
    /\ sep_idx' = sep_idx + 1
    /\ pc' = IF sep_idx = NumSeparators THEN "after_loop" ELSE "parse"
    /\ UNCHANGED << weekly_program_text, training_days_per_week, matches, parsed,
                    weekly_program, tried, writers, day_lines, segments, error >>

\* lines 518-527
Fallback ==
    /\ pc = "after_loop"
    /\ steps' = steps + 1
    /\ UNCHANGED << calls, frames, handler >>
    /\ ~parsed
    /\ LET lines == FallbackLines(weekly_program_text)
           n == training_days_per_week
       IN  IF n = 0
           THEN /\ error' = "exception"
                /\ pc' = "failed"
                /\ UNCHANGED << weekly_program, writers, day_lines >>
           ELSE /\ weekly_program' = WriteFallback(weekly_program, lines, 1, n)
                /\ day_lines' = [day \in FallbackDays(n) |-> DayLines(lines, day, n)]
                /\ writers' = writers \cup {0}
                /\ pc' = "done"
                /\ UNCHANGED error
    /\ UNCHANGED << weekly_program_text, training_days_per_week, sep_idx, matches,
                    parsed, tried, segments >>

\* line 518, `if not parsed` is false
SkipFallback ==
    /\ pc = "after_loop"
    /\ steps' = steps + 1
    /\ UNCHANGED << calls, frames, handler >>
    /\ parsed
    /\ pc' = "done"
    /\ UNCHANGED << weekly_program_text, training_days_per_week, sep_idx, matches,
                    parsed, weekly_program, tried, writers, day_lines, segments, error >>

----------------------------------------------------------------------------
(* The same steps, taken by concurrent calls on their own frames *)

sequential == << weekly_program_text, training_days_per_week, pc, sep_idx, matches, parsed,
                 weekly_program, tried, writers, day_lines, segments, steps, error >>

\* lines 464-494 of call c
CallReceive(c) ==
    /\ calls[c].pc = "idle"
    /\ \E text \in ConcTexts, n \in 1..MaxConcDays :
          calls' = [calls EXCEPT ![c] = [text |-> text, n |-> n, pc |-> "parse",
                                         result |-> << >>]]
    /\ frames' = [frames EXCEPT ![Frame(c)] = NewFrame]
    /\ UNCHANGED << sequential, handler >>

\* lines 496-497 of call c
CallFindMatches(c) ==
    /\ calls[c].pc = "parse"
    /\ frames[Frame(c)].sep_idx <= NumSeparators
    /\ frames' = [frames EXCEPT ![Frame(c)].matches =
                      finditer(possible_separators[frames[Frame(c)].sep_idx], calls[c].text)]
    /\ calls' = [calls EXCEPT ![c].pc = "count"]
    /\ UNCHANGED << sequential, handler >>

\* lines 498-515 of call c
CallSelectSeparator(c) ==
    /\ calls[c].pc = "count"
    /\ Qualifies(frames[Frame(c)].matches, calls[c].n)
    /\ frames' = [frames EXCEPT
                      ![Frame(c)].weekly_program =
                          WriteSegments(@, frames[Frame(c)].matches, 0, calls[c].n, calls[c].text),
                      ![Frame(c)].parsed = TRUE]
    /\ calls' = [calls EXCEPT ![c].pc = "after_loop"]
    /\ UNCHANGED << sequential, handler >>

\* line 498 of call c, too few matches
CallSkipSeparator(c) ==
    /\ calls[c].pc = "count"
    /\ ~Qualifies(frames[Frame(c)].matches, calls[c].n)
    /\ frames' = [frames EXCEPT ![Frame(c)].sep_idx = @ + 1]
    /\ calls' = [calls EXCEPT ![c].pc =
                     IF frames[Frame(c)].sep_idx >= NumSeparators THEN "after_loop" ELSE "parse"]
    /\ UNCHANGED << sequential, handler >>

\* lines 518-527 of call c; the dict then goes into the response of line 536
CallFallback(c) ==
    /\ calls[c].pc = "after_loop"
    /\ ~frames[Frame(c)].parsed
    /\ LET d == WriteFallback(frames[Frame(c)].weekly_program,
                              FallbackLines(calls[c].text), 1, calls[c].n)
       IN  /\ frames' = [frames EXCEPT ![Frame(c)].weekly_program = d]
           /\ calls' = [calls EXCEPT ![c].pc = "done", ![c].result = d]
    /\ UNCHANGED << sequential, handler >>

\* line 518 of call c, `if not parsed` is false
CallSkipFallback(c) ==
    /\ calls[c].pc = "after_loop"
    /\ frames[Frame(c)].parsed
    /\ calls' = [calls EXCEPT ![c].pc = "done",
                              ![c].result = frames[Frame(c)].weekly_program]
    /\ UNCHANGED << frames, sequential, handler >>

ConcurrentNext ==
    \/ \E c \in Callers : CallReceive(c)
    \/ \E c \in Callers : CallFindMatches(c)
    \/ \E c \in Callers : CallSelectSeparator(c)
    \/ \E c \in Callers : CallSkipSeparator(c)
    \/ \E c \in Callers : CallFallback(c)
    \/ \E c \in Callers : CallSkipFallback(c)

ConcurrentSpec == Init /\ [][ConcurrentNext]_vars

----------------------------------------------------------------------------
(* One request *)

Next ==
    \/ ReceiveProgramText
    \/ FindMatches
    \/ SelectSeparator
    \/ SkipSeparator
    \/ Fallback
    \/ SkipFallback

Spec == Init /\ [][Next]_vars

----------------------------------------------------------------------------
(* The handler generate_program, lines 433-582, serving one request after  *)
(* another                                                                 *)

\* The requests served in a behaviour
Requests == {1, 2}

\* The texts the model server answers with
HandlerPieces ==
    { <<"D", "a", "y", " ", "1", ":">>,
      <<"D", "a", "y", " ", "2">>,
      <<"D", "A", "Y", " ", "3", ":">>,
      <<":">>, <<"\n">> }

HandlerTexts == TextsOf(HandlerPieces, MaxHandlerPieces)

\* The day counts int() accepts from the request body, zero included
HandlerDays == 0..MaxHandlerDays

\* line 533: the text after "Day {day}" in the entries of the error program
ErrorTail ==
    << ":", " ", "E", "r", "r", "o", "r", " ", "g", "e", "n", "e", "r",
       "a", "t", "i", "n", "g", " ", "p", "r", "o", "g", "r", "a", "m",
       " ", "-", " ", "m", "o", "d", "e", "l", " ", "s", "e", "r", "v",
       "e", "r", " ", "u", "n", "a", "v", "a", "i", "l", "a", "b", "l",
       "e" >>

\* line 533
ErrorContent(day) == <<"D", "a", "y", " ">> \o str(day) \o ErrorTail

\* variant: range(1, n)
ErrorDaysShort(n) == 1..(n - 1)

\* line 532: range(1, n + 1)
ErrorDays(n) == 1..n

\* lines 531-533
RECURSIVE WriteErrors(_, _, _)
WriteErrors(d, day, n) ==
    IF day \notin ErrorDays(n) THEN d
    ELSE WriteErrors(DictSet(d, day, ErrorContent(day)), day + 1, n)

\* line 552, json.dumps(weekly_program): the keys become strings, the order
\* of the entries is kept
json_dumps(d) == [k \in 1..Len(d) |-> [key |-> str(d[k].day), value |-> d[k].content]]

HandlerInit ==
    /\ weekly_program_text = << >>
    /\ training_days_per_week = 1
    /\ pc = "idle"
    /\ sep_idx = 1
    /\ matches = << >>
    /\ parsed = FALSE
    /\ weekly_program = << >>
    /\ tried = << >>
    /\ writers = {}
    /\ day_lines = << >>
    /\ segments = << >>
    /\ steps = 0
    /\ error = "none"
    /\ calls = [c \in Callers |-> [text |-> << >>, n |-> 1, pc |-> "idle", result |-> << >>]]
    /\ frames = [f \in Callers |-> NewFrame]
    /\ logged_in = FALSE
    /\ response = NoResponse
    /\ model_status = 0
    /\ programs = << >>
    /\ total_programs = 0
    /\ trace = << >>
    /\ served = 0

\* line 434: Flask calls the handler for a request, with or without a
\* logged-in session; the locals of the call are fresh
StartRequest ==
    /\ pc \in {"idle", "responded"}
    /\ served + 1 \in Requests
    /\ served' = served + 1
    /\ logged_in' \in BOOLEAN
    /\ pc' = "auth"
    /\ weekly_program_text' = << >>
    /\ training_days_per_week' = 1
    /\ sep_idx' = 1
    /\ matches' = << >>
    /\ parsed' = FALSE
    /\ weekly_program' = << >>
    /\ tried' = << >>
    /\ writers' = {}
    /\ day_lines' = << >>
    /\ segments' = << >>
    /\ steps' = 0
    /\ error' = "none"
    /\ response' = NoResponse
    /\ model_status' = 0
    /\ trace' = << >>
    /\ UNCHANGED << programs, total_programs, calls, frames >>

\* an early return with `status`: lines 545-570 are not reached
Refuse(status) ==
    /\ response' = [status |-> status, weekly_program |-> << >>]
    /\ pc' = "responded"
    /\ UNCHANGED << programs, total_programs >>

\* the variables of the segmentation and of the other calls
locals == << weekly_program_text, sep_idx, matches, parsed, weekly_program, tried, writers,
             day_lines, segments, calls, frames >>

\* variant: the health check of line 442 done before the session check
RejectAfterHealthCheck ==
    /\ pc = "auth"
    /\ ~logged_in
    /\ steps' = steps + 1
    /\ trace' = Append(trace, "health")
    /\ Refuse(401)
    /\ UNCHANGED << locals, training_days_per_week, error, logged_in, model_status, served >>

\* lines 438-439: no session
RejectUnauthenticated ==
    /\ pc = "auth"
    /\ ~logged_in
    /\ steps' = steps + 1
    /\ Refuse(401)
    /\ UNCHANGED << locals, training_days_per_week, error, logged_in, model_status, trace, served >>

\* lines 442-446 with check_model_server (lines 216-222) returning False
HealthCheckFails ==
    /\ pc = "auth"
    /\ logged_in
    /\ steps' = steps + 1
    /\ trace' = Append(trace, "health")
    /\ Refuse(503)
    /\ UNCHANGED << locals, training_days_per_week, error, logged_in, model_status, served >>

\* line 442 with check_model_server returning True
HealthCheckPasses ==
    /\ pc = "auth"
    /\ logged_in
    /\ steps' = steps + 1
    /\ trace' = Append(trace, "health")
    /\ pc' = "body"
    /\ UNCHANGED << locals, training_days_per_week, error, logged_in, response, model_status,
                    programs, total_programs, served >>

\* lines 449-451: get_json returns nothing, or an empty object
BodyMissing ==
    /\ pc = "body"
    /\ steps' = steps + 1
    /\ trace' = Append(trace, "get_json")
    /\ Refuse(400)
    /\ UNCHANGED << locals, training_days_per_week, error, logged_in, model_status, served >>

\* line 449 or a conversion of lines 455-465 raises
BodyRaises ==
    /\ pc = "body"
    /\ steps' = steps + 1
    /\ trace' = Append(trace, "get_json")
    /\ error' = "exception"
    /\ pc' = "failed"
    /\ UNCHANGED << locals, training_days_per_week, logged_in, response, model_status,
                    programs, total_programs, served >>

\* lines 449-468: the body holds an assessment
ReadAssessment ==
    /\ pc = "body"
    /\ steps' = steps + 1
    /\ trace' = Append(trace, "get_json")
    /\ training_days_per_week' \in HandlerDays
    /\ pc' = "call_model"
    /\ UNCHANGED << locals, error, logged_in, response, model_status, programs,
                    total_programs, served >>

\* lines 473-479: the model server answers 200 with a text
ModelAnswers ==
    /\ pc = "call_model"
    /\ steps' = steps + 1
    /\ trace' = Append(trace, "generate")
    /\ model_status' = 200
    /\ weekly_program_text' \in HandlerTexts
    /\ pc' = "parse"
    /\ UNCHANGED << training_days_per_week, sep_idx, matches, parsed, weekly_program, tried,
                    writers, day_lines, segments, error, calls, frames, logged_in, response,
                    programs, total_programs, served >>

\* lines 473-477 and 528-533: the model server answers with another status
ModelFails ==
    /\ pc = "call_model"
    /\ steps' = steps + 1
    /\ trace' = Append(trace, "generate")
    /\ model_status' \in {404, 500}
    /\ weekly_program' = WriteErrors(<< >>, 1, training_days_per_week)
    /\ pc' = "done"
    /\ UNCHANGED << weekly_program_text, training_days_per_week, sep_idx, matches, parsed,
                    tried, writers, day_lines, segments, error, calls, frames, logged_in,
                    response, programs, total_programs, served >>

\* line 473: requests.post raises (no connection, or no answer in time)
ModelCallRaises ==
    /\ pc = "call_model"
    /\ steps' = steps + 1
    /\ trace' = Append(trace, "generate")
    /\ error' = "exception"
    /\ pc' = "failed"
    /\ UNCHANGED << locals, training_days_per_week, logged_in, response, model_status,
                    programs, total_programs, served >>

\* lines 536-573: the program is saved and returned
SaveProgram ==
    /\ pc = "done"
    /\ steps' = steps + 1
    /\ programs' = Append(programs, [program_data |-> json_dumps(weekly_program),
                                     training_days |-> training_days_per_week])
    /\ total_programs' = total_programs + 1
    /\ trace' = Append(trace, "insert")
    /\ response' = [status |-> 200, weekly_program |-> weekly_program]
    /\ pc' = "responded"
    /\ UNCHANGED << locals, training_days_per_week, error, logged_in, model_status, served >>

\* lines 575-582
HandleException ==
    /\ pc = "failed"
    /\ steps' = steps + 1
    /\ response' = [status |-> 500, weekly_program |-> << >>]
    /\ pc' = "responded"
    /\ UNCHANGED << locals, training_days_per_week, error, logged_in, model_status, programs,
                    total_programs, trace, served >>

HandlerNext ==
    \/ StartRequest
    \/ RejectUnauthenticated
    \/ HealthCheckFails
    \/ HealthCheckPasses
    \/ BodyMissing
    \/ BodyRaises
    \/ ReadAssessment
    \/ ModelAnswers
    \/ ModelFails
    \/ ModelCallRaises
    \/ FindMatches
    \/ SelectSeparator
    \/ SkipSeparator
    \/ Fallback
    \/ SkipFallback
    \/ SaveProgram
    \/ HandleException

HandlerSpec == HandlerInit /\ [][HandlerNext]_vars

----------------------------------------------------------------------------
(* Vocabulary of the properties, stated on the text and not through the    *)
(* operators above                                                         *)

Done == pc = "done"

\* the offsets at which a heading of separator `sep` begins: the literal,
\* compared up to case, then one or more digits, then the suffix
HeadingStarts(sep, text) ==
    LET len == Len(text)
        g == Len(sep.lit)
        first == Lower(sep.lit[1])
    IN  { p \in 0..(len - g - 1) :
            /\ Lower(text[p + 1]) = first
            /\ \A k \in 2..g : Lower(text[p + k]) = Lower(sep.lit[k])
            /\ \E r \in 1..(len - p - g) :
                  /\ \A k \in 1..r : IsDigit(text[p + g + k])
                  /\ p + g + r + Len(sep.suffix) <= len
                  /\ \A k \in 1..Len(sep.suffix) : text[p + g + r + k] = sep.suffix[k]
                  /\ (sep.suffix = << >> =>
                        (p + g + r = len \/ ~IsDigit(text[p + g + r + 1]))) }

ColonSeparator == [lit |-> <<"D", "a", "y", " ">>, suffix |-> <<":">>]
BareSeparator == [lit |-> <<"D", "a", "y", " ">>, suffix |-> << >>]

RECURSIVE SortedSeq(_)
SortedSeq(S) ==
    IF S = {} THEN << >>
    ELSE LET m == CHOOSE x \in S : \A y \in S : x <= y
         IN  << m >> \o SortedSeq(S \ {m})

\* the number written at a heading that starts at offset p
RECURSIVE NumberFrom(_, _, _)
NumberFrom(text, q, acc) ==
    IF q <= Len(text) /\ IsDigit(text[q])
    THEN NumberFrom(text, q + 1, 10 * acc + DigitVal(text[q]))
    ELSE acc

NumberAt(text, p) == NumberFrom(text, p + 5, 0)

\* s is t without its leading and trailing whitespace
IsTrimOf(s, t) ==
    /\ s # << >> => (~IsSpace(s[1]) /\ ~IsSpace(s[Len(s)]))
    /\ \E a \in 0..Len(t) :
          /\ a + Len(s) <= Len(t)
          /\ \A k \in 1..Len(s) : t[a + k] = s[k]
          /\ \A k \in 1..Len(t) : (k <= a \/ k > a + Len(s)) => IsSpace(t[k])

\* text[a:b] for offsets 0 <= a <= b <= Len(text)
Span(text, a, b) == [k \in 1..(b - a) |-> text[a + k]]

\* the separator the program was written by
Selected == possible_separators[tried[Len(tried)]]

----------------------------------------------------------------------------
(* C1: for every text and every positive expectedDays n, the returned      *)
(* mapping has exactly n entries.                                          *)
C1_ExactlyNEntries ==
    Done => Len(weekly_program) = training_days_per_week

(* C2: every content of the returned mapping is non-empty after trimming   *)
(* surrounding whitespace.                                                 *)
C2_ContentNonEmpty ==
    Done => \A k \in 1..Len(weekly_program) :
                \E j \in 1..Len(weekly_program[k].content) :
                    ~IsSpace(weekly_program[k].content[j])

\* a heading-path result whose last heading is followed by whitespace only
C2_Witness ==
    /\ Done
    /\ parsed
    /\ Len(weekly_program) >= 2
    /\ weekly_program_text # << >>
    /\ IsSpace(weekly_program_text[Len(weekly_program_text)])

ExactAt(lit, text, p) ==
    /\ p + Len(lit) <= Len(text)
    /\ \A k \in 1..Len(lit) : text[p + k] = lit[k]

Day1 == <<"D", "a", "y", " ", "1">>
Day2 == <<"D", "a", "y", " ", "2">>
Day3 == <<"D", "a", "y", " ", "3">>

\* the offsets at which the heading `lit` with the number `num` stands (no
\* further digit follows the number)
StartsOfDay(lit, num, text) ==
    { p \in 0..Len(text) : ExactAt(lit, text, p) /\ NumberAt(text, p) = num }

\* the offsets of headings "Day 1", "Day 2", "Day 3", in that order
Day123(text) ==
    { t \in StartsOfDay(Day1, 1, text) \X StartsOfDay(Day2, 2, text)
               \X StartsOfDay(Day3, 3, text) :
        /\ t[1] + Len(Day1) <= t[2]
        /\ t[2] + Len(Day2) <= t[3] }

SpansOf123(t) ==
    /\ Keys(weekly_program) = {1, 2, 3}
    /\ Len(weekly_program) = 3
    /\ IsTrimOf(Get(weekly_program, 1), Span(weekly_program_text, t[1], t[2]))
    /\ IsTrimOf(Get(weekly_program, 2), Span(weekly_program_text, t[2], t[3]))
    /\ IsTrimOf(Get(weekly_program, 3),
                Span(weekly_program_text, t[3], Len(weekly_program_text)))

\* the claim as stated
C4_Original ==
    (Done /\ training_days_per_week = 3 /\ Day123(weekly_program_text) # {})
        => \E t \in Day123(weekly_program_text) : SpansOf123(t)

\* "Day 1", "Day 2", "Day 3" are the only day headings of the text, in any
\* letter case
OnlyDay123(text, t) == HeadingStarts(BareSeparator, text) = {t[1], t[2], t[3]}

\* the claim, for texts with no day heading other than the three
C4_Day123 ==
    (Done /\ training_days_per_week = 3)
        => \A t \in Day123(weekly_program_text) :
               OnlyDay123(weekly_program_text, t) => SpansOf123(t)

C4_Witness ==
    /\ Done
    /\ training_days_per_week = 3
    /\ \E t \in Day123(weekly_program_text) :
          /\ OnlyDay123(weekly_program_text, t)
          /\ t[2] > t[1] + Len(Day1)
          /\ Len(Get(weekly_program, 1)) < t[2] - t[1]

(* C5: when headings appear out of numeric order, the keys are the numbers *)
(* parsed from the headings and each entry holds the content that follows  *)
(* the first-encountered heading of its number.                            *)
SelectedStarts == SortedSeq(HeadingStarts(Selected, weekly_program_text))

\* the end of the segment of the i-th heading
SegmentEnd(starts, i) ==
    IF i < Len(starts) THEN starts[i + 1] ELSE Len(weekly_program_text)

OutOfOrder(starts, n) ==
    \E i, j \in 1..n :
        /\ i < j
        /\ NumberAt(weekly_program_text, starts[i]) > NumberAt(weekly_program_text, starts[j])

C5_FirstEncountered ==
    (Done /\ parsed /\ OutOfOrder(SelectedStarts, training_days_per_week))
        => LET st == SelectedStarts
               n == training_days_per_week
               num(i) == NumberAt(weekly_program_text, st[i])
           IN  /\ Keys(weekly_program) = { num(i) : i \in 1..n }
               /\ \A i \in 1..n :
                     (\A j \in 1..(i - 1) : num(j) # num(i))
                        => IsTrimOf(Get(weekly_program, num(i)),
                                    Span(weekly_program_text, st[i], SegmentEnd(st, i)))

(* C6: when the colon-suffixed pattern and the bare pattern both match at  *)
(* least expectedDays times, the segments are those of the colon-suffixed  *)
(* pattern's matches.                                                      *)
ColonStarts == SortedSeq(HeadingStarts(ColonSeparator, weekly_program_text))

C6_ColonPrecedence ==
    (/\ Done
     /\ Len(ColonStarts) >= training_days_per_week
     /\ Cardinality(HeadingStarts(BareSeparator, weekly_program_text))
            >= training_days_per_week)
        => /\ parsed
           /\ Len(segments) = training_days_per_week
           /\ \A i \in 1..training_days_per_week :
                 IsTrimOf(segments[i],
                          Span(weekly_program_text, ColonStarts[i], SegmentEnd(ColonStarts, i)))
           /\ \A k \in 1..Len(weekly_program) :
                 \E i \in 1..training_days_per_week :
                    /\ weekly_program[k].day = NumberAt(weekly_program_text, ColonStarts[i])
                    /\ weekly_program[k].content = segments[i]

\* the bare pattern has more matches, and an earlier first match
C6_Witness ==
    /\ Done
    /\ Len(ColonStarts) >= training_days_per_week
    /\ Cardinality(HeadingStarts(BareSeparator, weekly_program_text)) > Len(ColonStarts)
    /\ \E p \in HeadingStarts(BareSeparator, weekly_program_text) : p < ColonStarts[1]

(* C7: the patterns are tried in declared order, the first one with at     *)
(* least expectedDays matches is selected, the result is written by that   *)
(* pattern only, and once a pattern is selected no later one is evaluated. *)
Enough(k) ==
    Cardinality(HeadingStarts(possible_separators[k], weekly_program_text))
        >= training_days_per_week

C7_FirstSufficient ==
    /\ \A k \in 1..Len(tried) : tried[k] = k
    /\ Done => \A k \in 1..Len(tried) :
                  Enough(k) <=> (parsed /\ k = Len(tried))
    /\ parsed => (tried # << >> /\ writers = {tried[Len(tried)]})
    /\ ~parsed => writers \subseteq {0}
    /\ (pc = "after_loop" /\ ~parsed) => Len(tried) = NumSeparators
    /\ pc = "parse" => Len(tried) = sep_idx - 1

\* the second pattern is selected although the third matches as well
C7_Witness ==
    /\ Done
    /\ parsed
    /\ tried = <<1, 2>>
    /\ Enough(3)
    /\ training_days_per_week >= 2

(* C8: for a text with no day heading and expectedDays = 3, the fallback   *)
(* produces 3 entries, each beginning with the line "Day <d>:", and the    *)
(* body lines of entries 1, 2, 3 put end to end are the lines of the text, *)
(* each once and in order.                                                 *)
RECURSIVE Concat(_)
Concat(ss) == IF ss = << >> THEN << >> ELSE Head(ss) \o Concat(Tail(ss))

NoNewline(line) == \A k \in 1..Len(line) : line[k] # "\n"

\* the three entries and their bodies
FallbackShape ==
    /\ Len(weekly_program) = 3
    /\ DOMAIN day_lines = 1..3
    /\ \A d \in 1..3 :
          /\ weekly_program[d].day = d
          /\ weekly_program[d].content =
                <<"D", "a", "y", " ", Digits[d + 1], ":", "\n">> \o Join(day_lines[d])
          /\ \A k \in 1..Len(day_lines[d]) : NoNewline(day_lines[d][k])

BodyLines == Concat([d \in 1..3 |-> day_lines[d]])

NoHeading(text) == HeadingStarts(BareSeparator, text) = {}

\* the claim as stated: the lines are those of the text itself (a final
\* newline of the text does not count as a line)
C8_Original ==
    (Done /\ training_days_per_week = 3 /\ NoHeading(weekly_program_text))
        => /\ FallbackShape
           /\ \/ Join(BodyLines) = weekly_program_text
              \/ Join(BodyLines) \o << "\n" >> = weekly_program_text

\* the claim, for the lines of the text trimmed of surrounding whitespace
C8_TrimmedLines ==
    (Done /\ training_days_per_week = 3 /\ NoHeading(weekly_program_text))
        => /\ FallbackShape
           /\ IsTrimOf(Join(BodyLines), weekly_program_text)

\* four lines for three days, the text needing a trim
C8_Witness ==
    /\ Done
    /\ training_days_per_week = 3
    /\ NoHeading(weekly_program_text)
    /\ Len(BodyLines) >= 4
    /\ IsSpace(weekly_program_text[Len(weekly_program_text)])

(* C9: for the empty text and expectedDays = 4 the result has 4 entries    *)
(* keyed 1..4, each the synthesized heading line and nothing else.         *)
C9_EmptyText ==
    (Done /\ weekly_program_text = << >> /\ training_days_per_week = 4)
        => weekly_program =
              << [day |-> 1, content |-> <<"D", "a", "y", " ", "1", ":", "\n">>],
                 [day |-> 2, content |-> <<"D", "a", "y", " ", "2", ":", "\n">>],
                 [day |-> 3, content |-> <<"D", "a", "y", " ", "3", ":", "\n">>],
                 [day |-> 4, content |-> <<"D", "a", "y", " ", "4", ":", "\n">>] >>

C9_Witness ==
    /\ Done
    /\ weekly_program_text = << >>
    /\ training_days_per_week = 4
    /\ ~parsed
    /\ Len(weekly_program) = 4

(* C10: in the heading-pattern path, the segment of each of the first      *)
(* expectedDays matches is the trimmed text from the match's start up to   *)
(* the start of the next match, or to the end of the text for the last     *)
(* match; the entry of a heading number holds the segment of the last      *)
(* selected match with that number.                                        *)
C10_SegmentSpan ==
    (Done /\ parsed)
        => LET st == SelectedStarts
               n == training_days_per_week
               num(i) == NumberAt(weekly_program_text, st[i])
           IN  /\ Len(st) >= n
               /\ Len(segments) = n
               /\ \A i \in 1..n :
                     IsTrimOf(segments[i],
                              Span(weekly_program_text, st[i], SegmentEnd(st, i)))
               /\ \A i \in 1..n :
                     (\A j \in (i + 1)..n : num(j) # num(i))
                        => Get(weekly_program, num(i)) = segments[i]

\* the last selected match is the last match, and a segment is cut at the
\* next heading and trimmed
C10_Witness ==
    /\ Done
    /\ parsed
    /\ training_days_per_week >= 2
    /\ Len(SelectedStarts) = training_days_per_week
    /\ Len(segments[1]) < SelectedStarts[2] - SelectedStarts[1]
    /\ Len(segments[training_days_per_week]) > 5

(* C11: in the heading-pattern path the key of each entry is the number    *)
(* written in a selected heading, never the position of the match: the     *)
(* keys are exactly the numbers of the first expectedDays headings, which  *)
(* may be out of order or non-contiguous.                                  *)
C11_KeyFromHeading ==
    (Done /\ parsed)
        => LET st == SelectedStarts
               n == training_days_per_week
           IN  /\ Keys(weekly_program) = { NumberAt(weekly_program_text, st[i]) : i \in 1..n }
               /\ \A k \in 1..Len(weekly_program) :
                     \E i \in 1..n :
                        /\ weekly_program[k].day = NumberAt(weekly_program_text, st[i])
                        /\ weekly_program[k].content = segments[i]

\* the keys are not 1..expectedDays, and the first entry has the larger key
C11_Witness ==
    /\ Done
    /\ parsed
    /\ training_days_per_week = 2
    /\ Len(weekly_program) = 2
    /\ weekly_program[1].day > weekly_program[2].day
    /\ weekly_program[1].day > training_days_per_week

(* C12: the fallback split is taken if and only if no candidate pattern    *)
(* has at least expectedDays matches; when some pattern has that many, the *)
(* fallback writes no entry.                                               *)
SomeEnough == \E k \in 1..NumSeparators : Enough(k)

C12_FallbackIffNoneEnough ==
    Done => LET some == SomeEnough
            IN  /\ (0 \in writers) <=> ~some
                /\ parsed <=> some
                /\ some => (day_lines = << >> /\ writers \subseteq 1..NumSeparators)
                /\ ~some => (segments = << >> /\ DOMAIN day_lines = 1..training_days_per_week)

\* the text has day headings, but fewer than expectedDays
C12_Witness ==
    /\ Done
    /\ 0 \in writers
    /\ HeadingStarts(BareSeparator, weekly_program_text) # {}
    /\ Len(weekly_program) = training_days_per_week

(* C13: in the fallback path, with linesPerDay = max(1, totalLines div      *)
(* expectedDays), every day d < expectedDays holds the lines at indices     *)
(* [(d-1)*linesPerDay, d*linesPerDay) and the last day holds the lines from *)
(* index (expectedDays-1)*linesPerDay to the end; the keys are exactly      *)
(* 1..expectedDays, in that order.                                          *)
IndexRange(d, n, per, total) ==
    IF d < n
    THEN { j \in 0..(total - 1) : (d - 1) * per <= j /\ j < d * per }
    ELSE { j \in 0..(total - 1) : (n - 1) * per <= j }

C13_FallbackRanges ==
    (Done /\ ~parsed)
        => LET lines == FallbackLines(weekly_program_text)
               total == Len(lines)
               n == training_days_per_week
               per == IF total \div n >= 1 THEN total \div n ELSE 1
           IN  /\ DOMAIN day_lines = 1..n
               /\ \A d \in 1..n :
                     day_lines[d] = [k \in 1..Cardinality(IndexRange(d, n, per, total)) |->
                                        lines[(d - 1) * per + k]]
               /\ Len(weekly_program) = n
               /\ \A d \in 1..n :
                     /\ weekly_program[d].day = d
                     /\ weekly_program[d].content =
                           <<"D", "a", "y", " ", Digits[d + 1], ":", "\n">> \o Join(day_lines[d])

\* the division leaves a remainder, which the last day takes
C13_Witness ==
    /\ Done
    /\ ~parsed
    /\ training_days_per_week >= 2
    /\ Len(day_lines[1]) >= 1
    /\ Len(day_lines[training_days_per_week]) > Len(day_lines[1])
    /\ Len(FallbackLines(weekly_program_text)) % training_days_per_week # 0

(* C14: every content of the returned mapping, from the heading-pattern    *)
(* path or from the fallback path, has no leading and no trailing          *)
(* whitespace.                                                             *)
C14_ContentTrimmed ==
    Done => \A k \in 1..Len(weekly_program) :
                LET c == weekly_program[k].content
                IN  c # << >> => (~IsSpace(c[1]) /\ ~IsSpace(c[Len(c)]))

(* C15: every key of the returned mapping is a positive integer, also when *)
(* the key is parsed from a heading such as "Day 0".                       *)
C15_PositiveKeys ==
    Done => \A k \in 1..Len(weekly_program) : weekly_program[k].day >= 1

(* C16: the returned mapping is ordered by day: its entries, in iteration  *)
(* order, have strictly ascending day numbers.                             *)
C16_AscendingDays ==
    Done => \A k \in 1..(Len(weekly_program) - 1) :
                weekly_program[k].day < weekly_program[k + 1].day

(* C17: heading recognition ignores letter case, for every candidate        *)
(* pattern: the result for a text is the result for the same text with its *)
(* headings written "Day N" (same keys in the same order, same contents up *)
(* to the rewritten headings); and a text with at least expectedDays       *)
(* headings "DAY N:", "day N:" or in any other letter case is segmented by *)
(* the first (colon-suffixed) pattern.                                     *)
AnyCaseDayAt(text, p) ==
    /\ p + 5 <= Len(text)
    /\ text[p + 1] \in {"D", "d"}
    /\ text[p + 2] \in {"A", "a"}
    /\ text[p + 3] \in {"Y", "y"}
    /\ text[p + 4] = " "
    /\ IsDigit(text[p + 5])

AnyCaseStarts(text) == { p \in 0..(Len(text) - 1) : AnyCaseDayAt(text, p) }

\* the headings that are followed by a colon
AnyCaseColonStarts(text) ==
    { p \in AnyCaseStarts(text) :
        \E r \in 1..(Len(text) - p - 5) :
            /\ \A k \in 1..r : IsDigit(text[p + 4 + k])
            /\ text[p + 4 + r + 1] = ":" }

\* the text with every heading written "Day N"
TitleCased(text) ==
    LET starts == AnyCaseStarts(text)
    IN  [k \in 1..Len(text) |->
            IF (k - 1) \in starts THEN "D"
            ELSE IF (k - 2) \in starts THEN "a"
            ELSE IF (k - 3) \in starts THEN "y"
            ELSE text[k]]

C17_AnyCase ==
    Done =>
        LET title == TitleCased(weekly_program_text)
            n == training_days_per_week
        IN  /\ Cardinality(AnyCaseColonStarts(weekly_program_text)) >= n
                  => (parsed /\ tried = << 1 >> /\ writers = {1})
            /\ title # weekly_program_text
                  => LET ref == Segmented(title, n)
                     IN  /\ Len(weekly_program) = Len(ref)
                         /\ \A k \in 1..Len(ref) :
                               /\ weekly_program[k].day = ref[k].day
                               /\ TitleCased(weekly_program[k].content) = ref[k].content

\* two or more headings, one of them not written "Day"
C17_Witness ==
    /\ Done
    /\ training_days_per_week >= 2
    /\ Cardinality(AnyCaseColonStarts(weekly_program_text)) >= training_days_per_week
    /\ TitleCased(weekly_program_text) # weekly_program_text
    /\ Len(weekly_program) >= 2

(* C19: in the heading-pattern path the number of entries is the number of *)
(* distinct heading numbers among the first expectedDays matches; when two *)
(* of these matches carry the same number the segment of the later one     *)
(* replaces the earlier one and the result has fewer than expectedDays     *)
(* entries.                                                                *)
SelectedNumbers ==
    LET st == SelectedStarts
    IN  [i \in 1..training_days_per_week |-> NumberAt(weekly_program_text, st[i])]

Repeated(nums) == \E i, j \in 1..Len(nums) : i < j /\ nums[i] = nums[j]

C19_LastWriteWins ==
    (Done /\ parsed)
        => LET nums == SelectedNumbers
               n == training_days_per_week
           IN  /\ Len(weekly_program) = Cardinality({ nums[i] : i \in 1..n })
               /\ Cardinality(Keys(weekly_program)) = Len(weekly_program)
               /\ Repeated(nums) => Len(weekly_program) < n
               /\ \A i \in 1..n :
                     LET last == CHOOSE j \in i..n :
                                    /\ nums[j] = nums[i]
                                    /\ \A m \in (j + 1)..n : nums[m] # nums[i]
                     IN  Get(weekly_program, nums[i]) = segments[last]

\* two selected headings with the same number and different segments
C19_Witness ==
    /\ Done
    /\ parsed
    /\ Len(weekly_program) < training_days_per_week
    /\ \E i, j \in 1..training_days_per_week :
          /\ i < j
          /\ SelectedNumbers[i] = SelectedNumbers[j]
          /\ segments[i] # segments[j]

(* C20: when the selected pattern has more than expectedDays matches, the  *)
(* last selected segment ends at the start of match number expectedDays+1, *)
(* not at the end of the text, and no entry holds text from that offset    *)
(* onward.                                                                 *)
C20_CutAtNextMatch ==
    (Done /\ parsed /\ Len(SelectedStarts) > training_days_per_week)
        => LET st == SelectedStarts
               n == training_days_per_week
           IN  /\ Len(segments) = n
               /\ IsTrimOf(segments[n], Span(weekly_program_text, st[n], st[n + 1]))
               /\ \A k \in 1..Len(weekly_program) :
                     \E i \in 1..n :
                        /\ weekly_program[k].content = segments[i]
                        /\ st[i + 1] <= st[n + 1]
                        /\ IsTrimOf(segments[i],
                                    Span(weekly_program_text, st[i], st[i + 1]))

\* two headings are selected and two more are left out
C20_Witness ==
    /\ Done
    /\ parsed
    /\ training_days_per_week >= 2
    /\ Len(SelectedStarts) >= training_days_per_week + 2

(* C18: the segmentation is a function of (text, expectedDays) and shares  *)
(* no state between invocations: under every interleaving of concurrent    *)
(* invocations the result of each is the result of running it alone, and   *)
(* two invocations with the same inputs return the same mapping.           *)
C18_Independent ==
    /\ \A c \in Callers :
          calls[c].pc = "done" => calls[c].result = Segmented(calls[c].text, calls[c].n)
    /\ \A c, e \in Callers :
          (/\ calls[c].pc = "done"
           /\ calls[e].pc = "done"
           /\ calls[c].text = calls[e].text
           /\ calls[c].n = calls[e].n)
              => calls[c].result = calls[e].result

\* one call has finished while another call, on another text, is in its loop
C18_Witness ==
    \E c, e \in Callers :
        /\ calls[c].pc = "done"
        /\ calls[c].result # << >>
        /\ calls[e].pc = "count"
        /\ calls[e].text # calls[c].text
        /\ frames[Frame(e)].matches # << >>

(* C21: every pattern is matched ignoring case, so the bare pattern, third *)
(* in the list, has a heading wherever any other pattern has one; the      *)
(* fourth and the fifth pattern are never the selected one; and the        *)
(* fallback is taken exactly when the bare pattern, ignoring case, has     *)
(* fewer than expectedDays headings.                                       *)
UpperDay == <<"D", "A", "Y", " ">>

C21_BareSubsumes ==
    /\ writers \cap {4, 5} = {}
    /\ Done =>
          LET text == weekly_program_text
              bare == HeadingStarts(BareSeparator, text)
          IN  /\ possible_separators[3] = BareSeparator
              /\ \A k \in (1..NumSeparators) \ {3} :
                    HeadingStarts(possible_separators[k], text) \subseteq bare
              /\ AnyCaseStarts(text) = bare
              /\ parsed => tried[Len(tried)] \in 1..3
              /\ ~parsed <=> Cardinality(bare) < training_days_per_week
              /\ (0 \in writers) <=> Cardinality(bare) < training_days_per_week

\* the bare pattern is selected on a text with a heading in upper case,
\* which the colon-suffixed pattern matches too
C21_Witness ==
    /\ Done
    /\ parsed
    /\ tried = <<1, 2, 3>>
    /\ \E p \in HeadingStarts(possible_separators[4], weekly_program_text) :
          ExactAt(UpperDay, weekly_program_text, p)

(* C22: in the heading-pattern path every entry's content begins with the  *)
(* matched heading text, the selected segments are pairwise                *)
(* non-overlapping spans of the text in order of appearance, and the text  *)
(* before the first match of the selected pattern is in no entry.          *)

\* the end of the heading of separator `sep` that starts at offset p: the
\* literal, all the digits, the suffix
HeadingEnd(sep, text, p) ==
    LET g == p + Len(sep.lit)
        r == CHOOSE r \in 1..(Len(text) - g) :
                 /\ \A k \in 1..r : IsDigit(text[g + k])
                 /\ (g + r = Len(text) \/ ~IsDigit(text[g + r + 1]))
    IN  g + r + Len(sep.suffix)

\* the end of the heading without the whitespace that ends it
HeadingEndTrimmed(sep, text, p) ==
    LET e == HeadingEnd(sep, text, p)
    IN  IF IsSpace(text[e]) THEN e - 1 ELSE e

BeginsWith(s, prefix) ==
    /\ Len(prefix) <= Len(s)
    /\ \A k \in 1..Len(prefix) : s[k] = prefix[k]

\* segment i is the span of the text that starts at the i-th heading, and
\* it ends before the next heading starts
DisjointSpans(st, n) ==
    /\ Len(segments) = n
    /\ \A i \in 1..n :
          /\ st[i] + Len(segments[i]) <= SegmentEnd(st, i)
          /\ segments[i] =
                Span(weekly_program_text, st[i], st[i] + Len(segments[i]))
    /\ \A i \in 1..(n - 1) : st[i] < st[i + 1]

\* every entry is one of the segments, none of which starts before the
\* first heading
FromFirstMatchOn(st, n) ==
    \A k \in 1..Len(weekly_program) :
        \E i \in 1..n :
            /\ weekly_program[k].day = NumberAt(weekly_program_text, st[i])
            /\ weekly_program[k].content = segments[i]
            /\ st[1] <= st[i]

\* the claim as stated: the content begins with the whole matched heading
C22_Original ==
    (Done /\ parsed)
        => LET st == SelectedStarts
               n == training_days_per_week
           IN  /\ DisjointSpans(st, n)
               /\ FromFirstMatchOn(st, n)
               /\ \A i \in 1..n :
                     BeginsWith(segments[i],
                                Span(weekly_program_text, st[i],
                                     HeadingEnd(Selected, weekly_program_text, st[i])))

\* the claim, for the matched heading without the newline that ends it
C22_HeadingTrimmed ==
    (Done /\ parsed)
        => LET st == SelectedStarts
               n == training_days_per_week
           IN  /\ DisjointSpans(st, n)
               /\ FromFirstMatchOn(st, n)
               /\ \A i \in 1..n :
                     BeginsWith(segments[i],
                                Span(weekly_program_text, st[i],
                                     HeadingEndTrimmed(Selected, weekly_program_text, st[i])))

\* text stands before the first heading, and the last segment is shorter
\* than its heading, whose newline was trimmed
C22_Witness ==
    /\ Done
    /\ parsed
    /\ SelectedStarts[1] > 0
    /\ ~IsSpace(weekly_program_text[1])
    /\ LET st == SelectedStarts
           n == training_days_per_week
       IN  st[n] + Len(segments[n]) < HeadingEnd(Selected, weekly_program_text, st[n])

(* C23: in the fallback path with fewer lines than days, linesPerDay is 1, *)
(* each of the days 1..totalLines receives exactly one line, every later   *)
(* day, the last included, receives an empty body, and no line of the      *)
(* input is lost or duplicated.                                            *)
C23_FewerLinesThanDays ==
    (Done /\ ~parsed)
        => LET lines == FallbackLines(weekly_program_text)
               total == Len(lines)
               n == training_days_per_week
           IN  total < n
                  => /\ LinesPerDay(lines, n) = 1
                     /\ DOMAIN day_lines = 1..n
                     /\ \A d \in 1..total : day_lines[d] = << lines[d] >>
                     /\ \A d \in (total + 1)..n :
                           /\ day_lines[d] = << >>
                           /\ Get(weekly_program, d) =
                                 <<"D", "a", "y", " ", Digits[d + 1], ":", "\n">>
                     /\ Concat([d \in 1..n |-> day_lines[d]]) = lines

\* two lines for three or four days
C23_Witness ==
    /\ Done
    /\ ~parsed
    /\ Len(FallbackLines(weekly_program_text)) = 2
    /\ training_days_per_week > 2
    /\ day_lines[1] # day_lines[2]
    /\ day_lines[training_days_per_week] = << >>

(* C24: the fallback strips the whole text before it splits it into lines: *)
(* the leading and the trailing blank lines of the text are in no entry's  *)
(* body, and a text of whitespace only gives the result of the empty text. *)
Blank(s) == \A k \in 1..Len(s) : IsSpace(s[k])

C24_StrippedBeforeSplit ==
    (Done /\ ~parsed)
        => LET text == weekly_program_text
               n == training_days_per_week
               all == Concat([d \in 1..n |-> day_lines[d]])
           IN  /\ DOMAIN day_lines = 1..n
               /\ all # << >>
               /\ ~Blank(text)
                     => /\ all[1] # << >> /\ ~IsSpace(all[1][1])
                        /\ all[Len(all)] # << >>
                        /\ ~IsSpace(all[Len(all)][Len(all[Len(all)])])
                        /\ IsTrimOf(Join(all), text)
               /\ Blank(text)
                     => /\ all = << << >> >>
                        /\ weekly_program = Segmented(<< >>, n)
                        /\ \A d \in 1..n :
                              Get(weekly_program, d) =
                                 <<"D", "a", "y", " ", Digits[d + 1], ":", "\n">>

\* blank lines stand before and after the lines of the text
C24_Witness ==
    /\ Done
    /\ ~parsed
    /\ training_days_per_week >= 2
    /\ Len(weekly_program_text) >= 4
    /\ weekly_program_text[1] = "\n"
    /\ weekly_program_text[Len(weekly_program_text)] = "\n"
    /\ Len(FallbackLines(weekly_program_text)) >= 2

(* C25: when training_days_per_week is 0, which the int() of line 464      *)
(* accepts, the first pattern qualifies with zero required matches, the    *)
(* result is the empty mapping, and the division by expectedDays of the    *)
(* fallback is not reached, whatever the text.                             *)
C25_ZeroDays ==
    (training_days_per_week = 0 /\ model_status = 200)
        => /\ error = "none"
           /\ pc \in {"parse", "count", "after_loop", "done", "responded"}
           /\ 0 \notin writers
           /\ day_lines = << >>
           /\ weekly_program = << >>
           /\ pc = "parse" => tried = << >>
           /\ pc = "count" => (tried = << 1 >> /\ Len(matches) >= training_days_per_week)
           /\ pc \in {"after_loop", "done", "responded"} => (parsed /\ tried = << 1 >>)
           /\ pc = "responded"
                 => /\ response = [status |-> 200, weekly_program |-> << >>]
                    /\ programs[Len(programs)] = [program_data |-> << >>, training_days |-> 0]

\* zero days and a text with no day heading, which no pattern matches
C25_Witness ==
    /\ training_days_per_week = 0
    /\ model_status = 200
    /\ response.status = 200
    /\ weekly_program_text # << >>
    /\ AnyCaseStarts(weekly_program_text) = {}
    /\ ~Blank(weekly_program_text)

(* C26: when the model server answers the generate call with a status      *)
(* other than 200, the handler skips the segmentation and builds a program *)
(* of exactly training_days_per_week entries, keyed 1 to                   *)
(* training_days_per_week, each holding the fixed error message of its     *)
(* day; this program is saved and returned as a successful response.       *)
ErrorMessage(d) == <<"D", "a", "y", " ", Digits[d + 1]>> \o ErrorTail

C26_ErrorProgramSaved ==
    (model_status \notin {0, 200})
        => LET n == training_days_per_week
           IN  /\ tried = << >> /\ matches = << >> /\ ~parsed /\ writers = {}
               /\ segments = << >> /\ day_lines = << >>
               /\ error = "none"
               /\ pc \in {"done", "responded"}
               /\ Len(weekly_program) = n
               /\ \A d \in 1..n :
                     weekly_program[d] = [day |-> d, content |-> ErrorMessage(d)]
               /\ pc = "responded"
                     => /\ response = [status |-> 200, weekly_program |-> weekly_program]
                        /\ total_programs = Len(programs)
                        /\ programs # << >>
                        /\ programs[Len(programs)].training_days = n
                        /\ programs[Len(programs)].program_data =
                              [d \in 1..n |-> [key |-> << Digits[d + 1] >>,
                                               value |-> ErrorMessage(d)]]

\* the error program of two days is saved after the program of an earlier
\* request
C26_Witness ==
    /\ model_status = 500
    /\ response.status = 200
    /\ training_days_per_week = 2
    /\ Len(weekly_program) = 2
    /\ Len(programs) = 2
    /\ total_programs = 2

(* C27: the checks of the handler are ordered.  A request without a        *)
(* logged-in session is answered 401 before the model server is contacted; *)
(* a failed health check of the model server is answered 503 before the    *)
(* body of the request is read; in both cases, and when the body is        *)
(* missing (400), no row is inserted into programs and                     *)
(* user_stats.total_programs is left as it was.                            *)
HandlerOrder == << "health", "get_json", "generate", "insert" >>

\* what holds after every step of the handler
ChecksOrdered ==
    /\ \E k \in 0..Len(HandlerOrder) : trace' = SubSeq(HandlerOrder, 1, k)
    /\ response'.status = 401 => (trace' = << >> /\ ~logged_in')
    /\ response'.status = 503 => trace' = << "health" >>
    /\ response'.status = 400 => trace' = << "health", "get_json" >>
    /\ response'.status \in {400, 401, 503}
          => (programs' = programs /\ total_programs' = total_programs)
    /\ (programs' # programs \/ total_programs' # total_programs)
          => /\ trace' = Append(trace, "insert")
             /\ response'.status = 200
             /\ logged_in
             /\ Len(programs') = Len(programs) + 1
             /\ total_programs' = total_programs + 1

C27_ChecksOrdered == [][ChecksOrdered]_vars

\* a request is refused after an earlier one has saved its program
C27_Witness ==
    /\ response.status = 503
    /\ trace = << "health" >>
    /\ served = 2
    /\ Len(programs) = 1
    /\ total_programs = 1

====
